---------------------------- MODULE Spec2Model ----------------------------
(***************************************************************************)
(* A model of airem's Transaction class (src/src/txn.ts): the builder      *)
(* methods step, steps and onStep, and run() with its retry loop and its   *)
(* reverse-order rollback.                                                 *)
(*                                                                         *)
(* The callbacks a transaction is given (execute, rollback, the observers, *)
(* the global rollback, the logger) are the environment: each invocation   *)
(* either returns or raises, chosen nondeterministically.  Every           *)
(* invocation is appended to the history variable `calls`, which the       *)
(* program does not have; the properties are stated over it.               *)
(*                                                                         *)
(* An action is the code between two points where run() can be suspended   *)
(* in a loop iteration: the head of a for..of iteration, one iteration of  *)
(* the retry loop, the entry of the outer catch, one iteration of the      *)
(* rollback loop.  A loop's exit (return context, throw error) belongs to  *)
(* the action that makes its condition false.  The steps and the handlers  *)
(* are set before run() is called, and run() is called once.               *)
(***************************************************************************)
EXTENDS Naturals, Integers, Sequences, FiniteSets

\* ------------------------------------------------------------------ bounds

\* The longest step list, the largest retry.attempts, and how many steps of
\* a list carry a retry policy.
MaxSteps == 3
MaxAttempts == 2
MaxRetried == 1
\* The longest step list of the specifications that start from a built
\* transaction.
MaxBuiltSteps == 2

\* ------------------------------------------------------- program constants

\* `let context: any = undefined`: the context the first step receives.
Undefined == 0
\* `let lastError: Error | undefined`: no error.
NoError == 0
\* A non-zero delayMs (the example's `retry: { attempts: 2, delayMs: 100 }`).
DelayMs == 100

\* ------------------------------------------------------------ value sets

Names == {"a", "b"}

\* Step names are only ever compared for equality (tasks.find), so a list is
\* built with its names in order of first use: the first step is "a", and a
\* later step reuses a name or takes the next one.
NameOrder == <<"a", "b">>

\* retry?: { attempts: number; delayMs: number }.  set = FALSE is `retry`
\* left out.  attempts is not validated by the code, so 0 is an input.
RetryPolicies ==
    {[set |-> FALSE, attempts |-> 0, delayMs |-> 0]} \cup
    [set : {TRUE}, attempts : 0..MaxAttempts, delayMs : {0, DelayMs}]

\* interface TransactionStep: execute is the environment, rollback is
\* whether a rollback function was given.
TransactionStep == [name : Names, rollback : BOOLEAN, retry : RetryPolicies]

\* The argument of onStep: which handlers it carries.
StepEventsArg ==
    [onStart : BOOLEAN, onSuccess : BOOLEAN, onError : BOOLEAN, rollback : BOOLEAN]

\* ----------------------------------------------------------------- state

VARIABLES
    tasks,          \* private tasks: TransactionStep[]
    globalRollback, \* private globalRollback?: whether one is set
    stepEvents,     \* private stepEvents: which observers are set
    logger,         \* private logger?: "absent", or given: "returns" | "raises"
    pc,             \* where run() is
    k,              \* the for..of position in tasks (1-based)
    context,        \* let context
    contexts,       \* const contexts: Context[]
    attempts,       \* let attempts
    lastError,      \* let lastError
    error,          \* the error the outer catch caught
    i,              \* the rollback loop's index (1-based)
    returned,       \* what run() resolved with
    thrown,         \* what run() rejected with
    calls,          \* history: every callback invocation, in order
    lastEvents,     \* history: the argument of the last call of onStep
    cleared         \* history: that call left out a handler that was set

vars == <<tasks, globalRollback, stepEvents, logger, pc, k, context, contexts,
          attempts, lastError, error, i, returned, thrown, calls,
          lastEvents, cleared>>

config == <<tasks, globalRollback, stepEvents, logger, lastEvents, cleared>>
locals == <<k, context, contexts, attempts, lastError, error, i, returned, thrown>>

\* ------------------------------------------------- the history of calls

\* One invocation.  idx: the position in tasks of the step it belongs to
\* (for rollback: of the definition whose rollback was invoked); entry: the
\* position in contexts being rolled back; ctx, err, res: the arguments
\* (res of execute: what it returned); ok: it returned, FALSE: it raised.
\* An error is identified by the position in `calls` of the call that raised it.
Call(fn, idx, name, ctx, err, res, entry, ok) ==
    [fn |-> fn, idx |-> idx, name |-> name, ctx |-> ctx, err |-> err,
     res |-> res, entry |-> entry, ok |-> ok]

\* A straight-line block of code: the calls made so far and the error that
\* is propagating, if any.
Start(cs) == [calls |-> cs, raised |-> NoError]

\* `await f?.(...)`: skipped when an error is propagating or f is not set.
Invoke(m, present, c) ==
    IF m.raised # NoError \/ ~present THEN m
    ELSE [calls |-> Append(m.calls, c),
          raised |-> IF c.ok THEN NoError ELSE Len(m.calls) + 1]

\* `this.logger?.(message, details)`.
Log(m, message, idx, ok) ==
    Invoke(m, logger # "absent",
           Call("logger", idx, message, Undefined, NoError, Undefined, 0, ok))

\* What a logger call can do: a logger that "returns" never raises.
LoggerOutcomes == IF logger = "raises" THEN BOOLEAN ELSE {TRUE}

\* ------------------------------------------------------------ construction

\* constructor(logger?): no steps, no observers, no global rollback.
InitWith(loggers) ==
    /\ tasks = <<>>
    /\ globalRollback = FALSE
    /\ stepEvents = [onStart |-> FALSE, onSuccess |-> FALSE, onError |-> FALSE]
    /\ logger \in loggers
    /\ pc = "idle"
    /\ k = 0
    /\ context = Undefined
    /\ contexts = <<>>
    /\ attempts = 0
    /\ lastError = NoError
    /\ error = NoError
    /\ i = 0
    /\ returned = Undefined
    /\ thrown = NoError
    /\ calls = <<>>
    /\ lastEvents = [onStart |-> FALSE, onSuccess |-> FALSE, onError |-> FALSE,
                     rollback |-> FALSE]
    /\ cleared = FALSE

\* A logging sink is given and returns normally.  (Without one the same
\* calls are made less the logger's: `this.logger?.(...)` is then skipped.)
Init == InitWith({"returns"})

\* --------------------------------------------------------------- builder

\* The step lists the builder is given: names in order of first use, and at
\* most MaxRetried steps with a retry policy.
NamedInOrder(ts) ==
    /\ \A j \in 1..Len(ts) :
          \E n \in 1..Len(NameOrder) :
              /\ ts[j].name = NameOrder[n]
              /\ \A l \in 1..(n - 1) : \E q \in 1..(j - 1) : ts[q].name = NameOrder[l]
    /\ Cardinality({j \in 1..Len(ts) : ts[j].retry.set}) <= MaxRetried

\* Those lists, up to n steps long (every prefix of one is one).
RECURSIVE StepListsUpTo(_)
StepListsUpTo(n) ==
    IF n = 0 THEN {<<>>}
    ELSE LET shorter == StepListsUpTo(n - 1)
             longest == {ts \in shorter : Len(ts) = n - 1}
         IN shorter \cup
            {ts \in {Append(q, s) : q \in longest, s \in TransactionStep} :
                NamedInOrder(ts)}

StepLists == StepListsUpTo(MaxSteps)

\* step(step): this.tasks.push(step).
Step ==
    /\ pc = "idle"
    /\ \E s \in TransactionStep :
          /\ Append(tasks, s) \in StepLists
          /\ tasks' = Append(tasks, s)
    /\ UNCHANGED <<globalRollback, stepEvents, logger, pc, locals, calls,
                   lastEvents, cleared>>

\* steps(steps): this.tasks.push(...steps).
Steps ==
    /\ pc = "idle"
    /\ \E ts \in StepLists :
          /\ Len(ts) >= Len(tasks)
          /\ SubSeq(ts, 1, Len(tasks)) = tasks
          /\ tasks' = tasks \o SubSeq(ts, Len(tasks) + 1, Len(ts))
    /\ UNCHANGED <<globalRollback, stepEvents, logger, pc, locals, calls,
                   lastEvents, cleared>>

\* An assignment that keeps the handler set before when none is given.
Merged(old, given) == old \/ given

\* `onStart: events.onStart` (lines 87-89, 91): the handler given, or none,
\* whatever was set before.
Replaced(old, given) == given

\* onStep(events): replaces stepEvents and globalRollback.
OnStep ==
    /\ pc = "idle"
    /\ \E ev \in StepEventsArg :
          /\ stepEvents' = [onStart |-> Replaced(stepEvents.onStart, ev.onStart),
                            onSuccess |-> Replaced(stepEvents.onSuccess, ev.onSuccess),
                            onError |-> Replaced(stepEvents.onError, ev.onError)]
          /\ globalRollback' = Replaced(globalRollback, ev.rollback)
          /\ lastEvents' = ev
          /\ cleared' = \/ stepEvents.onStart /\ ~ev.onStart
                        \/ stepEvents.onSuccess /\ ~ev.onSuccess
                        \/ stepEvents.onError /\ ~ev.onError
                        \/ globalRollback /\ ~ev.rollback
    /\ UNCHANGED <<tasks, logger, pc, locals, calls>>


\* ------------------------------------------------------------------- run

\* What a call of execute returns.  Contexts are opaque to run(), which only
\* hands them on, so each call returns a value of its own (its position in
\* the history): distinct from undefined and from every other result.
Result(cs) == Len(cs) + 1

\* `retry?.attempts ?? 1`.
Attempts(retry) == IF retry.set THEN retry.attempts ELSE 1

\* `retry?.delayMs`, as the condition of line 125 reads it: set and non-zero.
HasDelay(retry) == retry.set /\ retry.delayMs # 0

\* A catch block that forgets the decrement.
NotDecremented(att) == att

\* `attempts--` (line 124).
Decremented(att) == att - 1

\* A retry test that is off by one.
RetryAfterWaitEager(att, retry) == att >= 0 /\ HasDelay(retry)

\* `attempts > 0 && retry?.delayMs`: wait and go round the loop again.
RetryAfterWait(att, retry) == att > 0 /\ HasDelay(retry)

\* An onError that is told of every failed attempt.
ReportsErrorAlways(att, retry) == TRUE

\* The `else` of line 130: the failure is final; it is logged, reported to
\* onError and thrown.
ReportsError(att, retry) == ~RetryAfterWait(att, retry)

\* A history that records what the step produced.
HistoryEntryResult(name, ctx, result) == [step |-> name, ctx |-> result]

\* `contexts.push({ step: name, ctx: context })`.
HistoryEntry(name, ctx, result) == [step |-> name, ctx |-> ctx]

\* A forward pass that never hands the result on.
NextContextStale(ctx, result) == ctx

\* `context = result`.
NextContext(ctx, result) == result

\* A lookup that takes the last step of the name (findLast).
FindLast(ts, name) ==
    IF \E j \in 1..Len(ts) : ts[j].name = name
    THEN CHOOSE j \in 1..Len(ts) :
            /\ ts[j].name = name
            /\ \A l \in (j + 1)..Len(ts) : ts[l].name # name
    ELSE 0

\* `this.tasks.find((s) => s.name === step)`: the first match, 0 for none.
Find(ts, name) ==
    IF \E j \in 1..Len(ts) : ts[j].name = name
    THEN CHOOSE j \in 1..Len(ts) :
            /\ ts[j].name = name
            /\ \A l \in 1..(j - 1) : ts[l].name # name
    ELSE 0

\* A rollback loop that starts one entry short.
UnwindFirstShort(h) == Len(h) - 1

\* `for (let i = contexts.length - 1; ...`: where the rollback loop starts,
\* the last entry (1-based here).
UnwindFirst(h) == Len(h)

\* `i--`.
UnwindNext(j) == j - 1

\* A catch that lets the compensation's error go on.
CaughtNot(m) == m

\* `catch (revertErr) { ... }`: the compensation's error stops here.
Caught(m) == [calls |-> m.calls, raised |-> NoError]

\* The last error a compensation raised in cs (the last `revertErr` caught),
\* NoError when none did.
LastRevertErr(cs) ==
    LET raised == {p \in 1..Len(cs) :
                      cs[p].fn \in {"rollback", "globalRollback"} /\ ~cs[p].ok}
    IN IF raised = {} THEN NoError
       ELSE CHOOSE p \in raised : \A q \in raised : q <= p

\* A global rollback that is skipped once a compensation has failed.
GlobalAppliesUnlessFailed(m, global) == global /\ LastRevertErr(m.calls) = NoError

\* `if (this.globalRollback)`: whether the global rollback runs for an entry;
\* m is the block after the step-specific rollback.
GlobalApplies(m, global) == global

\* A rollback that surfaces the last compensation failure instead.
RethrownRevertErr(err, revertErr) == IF revertErr # NoError THEN revertErr ELSE err

\* `throw error` at the end of the outer catch: the error it caught, whatever
\* the compensations raised (revertErr is out of scope there).
Rethrown(err, revertErr) == err

\* An onSuccess that is told the result as the context too (as if it were
\* called after `context = result`).
OnSuccessCallLate(j, name, ctx, res, ok) ==
    Call("onSuccess", j, name, res, NoError, res, 0, ok)

\* `await this.stepEvents.onSuccess?.(name, context, result)`.
OnSuccessCall(j, name, ctx, res, ok) ==
    Call("onSuccess", j, name, ctx, NoError, res, 0, ok)

\* An onError that is told lastError as it was before line 123 set it.
OnErrorCallStale(j, name, ctx, err, before, ok) ==
    Call("onError", j, name, ctx, before, Undefined, 0, ok)

\* `await this.stepEvents.onError?.(name, context, lastError)`, lastError
\* being the error just caught (line 123); before: what it held until then.
OnErrorCall(j, name, ctx, err, before, ok) ==
    Call("onError", j, name, ctx, err, Undefined, 0, ok)

\* The for..of moves from step j to the next; past the last step it is
\* line 139, `return context`, with c the context then.
Advance(j, c) ==
    /\ k' = j + 1
    /\ IF j + 1 > Len(tasks)
       THEN pc' = "returned" /\ returned' = c
       ELSE pc' = "loop" /\ returned' = returned

\* async run(): the locals of lines 101-103, up to the first step.
Run ==
    /\ pc = "idle"
    /\ context' = Undefined
    /\ contexts' = <<>>
    /\ Advance(0, Undefined)
    /\ UNCHANGED <<config, attempts, lastError, error, i, thrown, calls>>

\* Lines 106-111: the head of one for..of iteration.  An error of the logger
\* or of onStart goes to the outer catch.
StepBegin ==
    /\ pc = "loop"
    /\ k <= Len(tasks)
    /\ \E lg \in LoggerOutcomes, os \in BOOLEAN :
          LET t == tasks[k]
              m1 == Log(Start(calls), "Starting step", k, lg)
              m2 == Invoke(m1, stepEvents.onStart,
                           Call("onStart", k, t.name, context, NoError, Undefined, 0, os))
          IN /\ calls' = m2.calls
             /\ IF m2.raised = NoError
                THEN /\ attempts' = Attempts(t.retry)
                     /\ lastError' = NoError
                     /\ pc' = "while"
                     /\ error' = error
                ELSE /\ pc' = "catch"
                     /\ error' = m2.raised
                     /\ UNCHANGED <<attempts, lastError>>
    /\ UNCHANGED <<config, k, context, contexts, i, returned, thrown>>

\* Lines 114-136: one iteration of `while (attempts > 0)`.  The try block is
\* execute, the logger, onSuccess; whatever raises in it is caught at line 122.
Attempt ==
    /\ pc = "while"
    /\ attempts > 0
    /\ \E okx \in BOOLEAN, lgS \in LoggerOutcomes, osx \in BOOLEAN,
          lgR \in LoggerOutcomes, lgF \in LoggerOutcomes, oex \in BOOLEAN :
          LET t == tasks[k]
              res == IF okx THEN Result(calls) ELSE Undefined
              t1 == Invoke(Start(calls), TRUE,
                           Call("execute", k, t.name, context, NoError, res, 0, okx))
              t2 == Log(t1, "Step succeeded", k, lgS)
              t3 == Invoke(t2, stepEvents.onSuccess,
                           OnSuccessCall(k, t.name, context, res, osx))
              att == Decremented(attempts)
              \* line 130, else branch: the logger, onError (then throw error)
              final == ReportsError(att, t.retry)
              f1 == IF final THEN Log(Start(t3.calls), "Step failed", k, lgF)
                    ELSE Start(t3.calls)
              f2 == Invoke(f1, final /\ stepEvents.onError,
                           OnErrorCall(k, t.name, context, t3.raised, lastError, oex))
              \* line 125, then branch: the logger, the wait
              r1 == Log(Start(f2.calls), "Retrying step", k, lgR)
              r2 == Invoke(r1, TRUE,
                           Call("setTimeout", k, t.name, Undefined, NoError,
                                t.retry.delayMs, 0, TRUE))
          IN IF t3.raised = NoError
             THEN /\ contexts' = Append(contexts, HistoryEntry(t.name, context, res))
                  /\ context' = NextContext(context, res)
                  /\ calls' = Append(t3.calls,
                                     Call("push", k, t.name, context, NoError, res,
                                          Len(contexts) + 1, TRUE))
                  /\ Advance(k, NextContext(context, res))
                  /\ UNCHANGED <<attempts, lastError, error>>
             ELSE IF f2.raised = NoError /\ RetryAfterWait(att, t.retry)
             THEN /\ calls' = r2.calls
                  /\ lastError' = t3.raised
                  /\ attempts' = att
                  /\ IF r2.raised = NoError
                     THEN pc' = "while" /\ error' = error
                     ELSE pc' = "catch" /\ error' = r2.raised
                  /\ UNCHANGED <<k, context, contexts, returned>>
             ELSE /\ calls' = f2.calls
                  /\ lastError' = t3.raised
                  /\ attempts' = att
                  /\ pc' = "catch"
                  /\ error' = IF f2.raised = NoError THEN t3.raised ELSE f2.raised
                  /\ UNCHANGED <<k, context, contexts, returned>>
    /\ UNCHANGED <<config, i, thrown>>

\* Line 114 when `attempts > 0` is false on entry: the loop body never runs
\* and the for..of moves on.
WhileExit ==
    /\ pc = "while"
    /\ ~(attempts > 0)
    /\ Advance(k, context)
    /\ UNCHANGED <<config, context, contexts, attempts, lastError, error, i,
                   thrown, calls>>

\* A rollback loop whose condition is `i > 0`: it stops before the first entry.
UnwindOffByOne(m, j) ==
    /\ calls' = m.calls
    /\ IF m.raised # NoError
       THEN thrown' = m.raised /\ pc' = "thrown" /\ i' = i
       ELSE IF j < 2
       THEN thrown' = Rethrown(error, LastRevertErr(m.calls)) /\ pc' = "thrown" /\ i' = j
       ELSE thrown' = thrown /\ pc' = "unwind" /\ i' = j

\* The rollback loop moves to entry j; when `i >= 0` is false (here j < 1) it
\* is line 176, `throw error`.  m is the block so far: an error propagating
\* in it leaves run() at once.
Unwind(m, j) ==
    /\ calls' = m.calls
    /\ IF m.raised # NoError
       THEN thrown' = m.raised /\ pc' = "thrown" /\ i' = i
       ELSE IF j < 1
       THEN thrown' = Rethrown(error, LastRevertErr(m.calls)) /\ pc' = "thrown" /\ i' = j
       ELSE thrown' = thrown /\ pc' = "unwind" /\ i' = j

\* Lines 140-143: the outer catch announces the rollback and sets up the loop.
\* The logger call is outside any try: its error leaves run().
Catch ==
    /\ pc = "catch"
    /\ \E lg \in LoggerOutcomes :
          Unwind(Log(Start(calls), "Transaction failed, initiating rollback", k, lg),
                 UnwindFirst(contexts))
    /\ UNCHANGED <<config, k, context, contexts, attempts, lastError, error, returned>>

\* One compensation in its try/catch (lines 148-163, 166-174): the logger and
\* the compensation in the try; in the catch the logger again, outside any try.
TryCompensate(m, present, fn, d, e, j, executing, failed, lgA, okc, lgB) ==
    IF m.raised # NoError \/ ~present THEN m
    ELSE LET a1 == Log(m, executing, d, lgA)
             a2 == Invoke(a1, TRUE, Call(fn, d, e.step, e.ctx, error, Undefined, j, okc))
         IN IF a2.raised = NoError THEN a2
            ELSE Log(Caught(a2), failed, d, lgB)

\* Lines 143-175: one iteration of the rollback loop.
RollbackEntry ==
    /\ pc = "unwind"
    /\ i >= 1
    /\ \E lg1 \in LoggerOutcomes, okr \in BOOLEAN, lg2 \in LoggerOutcomes,
          lg3 \in LoggerOutcomes, okg \in BOOLEAN, lg4 \in LoggerOutcomes :
          LET e == contexts[i]
              d == Find(tasks, e.step)
              m1 == TryCompensate(Start(calls), d # 0 /\ tasks[d].rollback, "rollback",
                                  d, e, i, "Executing step-specific rollback",
                                  "Step-specific rollback failed", lg1, okr, lg2)
              m2 == TryCompensate(m1, GlobalApplies(m1, globalRollback), "globalRollback",
                                  d, e, i, "Executing global rollback",
                                  "Global rollback failed", lg3, okg, lg4)
          IN Unwind(m2, UnwindNext(i))
    /\ UNCHANGED <<config, k, context, contexts, attempts, lastError, error, returned>>

Next ==
    \/ Step
    \/ Steps
    \/ OnStep
    \/ Run
    \/ StepBegin
    \/ Attempt
    \/ WhileExit
    \/ Catch
    \/ RollbackEntry

Spec == Init /\ [][Next]_vars

\* A transaction as the builder leaves it: constructed with a logger, up to
\* MaxBuiltSteps steps added, onStep called once, run() not yet called.
BuiltWith(loggers) ==
    /\ tasks \in StepListsUpTo(MaxBuiltSteps)
    /\ \E ev \in StepEventsArg :
          /\ stepEvents = [onStart |-> ev.onStart, onSuccess |-> ev.onSuccess,
                           onError |-> ev.onError]
          /\ globalRollback = ev.rollback
          /\ lastEvents = ev
    /\ cleared = FALSE
    /\ logger \in loggers
    /\ pc = "idle"
    /\ k = 0
    /\ context = Undefined
    /\ contexts = <<>>
    /\ attempts = 0
    /\ lastError = NoError
    /\ error = NoError
    /\ i = 0
    /\ returned = Undefined
    /\ thrown = NoError
    /\ calls = <<>>

\* run() once called goes on: each await resumes when what it awaits has
\* completed, and every action, observer, compensation and delay completes.
Continue == StepBegin \/ Attempt \/ WhileExit \/ Catch \/ RollbackEntry

\* The runs of a built transaction.
RunNext == Run \/ Continue

\* The logging sink returns, and run() goes on once called.
Built == BuiltWith({"returns"})

FairSpec == Built /\ [][RunNext]_vars /\ WF_vars(Continue)

\* The logging sink may raise at any of its calls.
BuiltSink == BuiltWith({"raises"})

SinkSpec == BuiltSink /\ [][RunNext]_vars

\* ------------------------------------------------------------ properties

\* Positions in the history of the calls of the given functions.
Pos(fns) == {p \in 1..Len(calls) : calls[p].fn \in fns}

Compensations == {"rollback", "globalRollback"}

\* run() rejected / the forward pass has ended with an error.
Failed == pc = "thrown"
RollingBack == pc \in {"catch", "unwind", "thrown"}

\* The history entry j has a step-specific compensation: the first step of
\* that name declares a rollback.
Compensable(j) ==
    \E d \in 1..Len(tasks) :
        /\ tasks[d].name = contexts[j].step
        /\ \A l \in 1..(d - 1) : tasks[l].name # contexts[j].step
        /\ tasks[d].rollback

\* The retry policies the specification's data model allows: max_attempts >= 1.
ValidPolicies == \A j \in 1..Len(tasks) : Attempts(tasks[j].retry) >= 1

\* C1: when run() fails, each history entry is compensated exactly once
\* (its step-specific compensation if declared, the global one if set), the
\* entries are visited from the last to the first, and the step that failed
\* has no history entry and its own rollback is not invoked.
C1_RollbackInReverseOrder ==
    Failed =>
        /\ \A j \in 1..Len(contexts) :
              /\ Cardinality({p \in Pos({"rollback"}) : calls[p].entry = j})
                    = IF Compensable(j) THEN 1 ELSE 0
              /\ Cardinality({p \in Pos({"globalRollback"}) : calls[p].entry = j})
                    = IF globalRollback THEN 1 ELSE 0
        /\ \A p \in Pos(Compensations) :
              /\ calls[p].entry \in 1..Len(contexts)
              /\ calls[p].name = contexts[calls[p].entry].step
              /\ \A q \in Pos(Compensations) : p < q => calls[p].entry >= calls[q].entry
        /\ \A p \in Pos({"push", "rollback"}) : calls[p].idx # k

\* Two entries rolled back, last first, after a step that declares a rollback
\* of its own failed.
C1_Witness ==
    /\ Failed
    /\ Len(contexts) = 2
    /\ tasks[k].rollback
    /\ \E p, q \in Pos({"rollback"}) :
          p < q /\ calls[p].entry = 2 /\ calls[q].entry = 1

\* C2: when run() fails, what it throws is the error that ended the forward
\* pass (the last error raised before the rollback), never a compensation's,
\* and it throws only once the rollback loop has passed the first entry.
C2_OriginalErrorRethrown ==
    Failed =>
        /\ i < 1
        /\ thrown \in 1..Len(calls)
        /\ ~calls[thrown].ok
        /\ calls[thrown].fn \notin Compensations
        /\ \A p \in 1..Len(calls) :
              (~calls[p].ok /\ calls[p].fn \notin Compensations) => p <= thrown
        /\ \A p \in Pos(Compensations) : p > thrown

\* A step-specific and a global compensation both raised, and run() has thrown.
C2_Witness ==
    /\ Failed
    /\ \E p \in Pos({"rollback"}) : ~calls[p].ok
    /\ \E p \in Pos({"globalRollback"}) : ~calls[p].ok

\* C3: a compensation that raises does not stop the unwind: when run() has
\* failed, every history entry has had its step-specific compensation (if
\* declared) and the global compensation (if set) invoked.
C3_UnwindNeverStops ==
    Failed =>
        \A j \in 1..Len(contexts) :
            /\ Compensable(j) => \E p \in Pos({"rollback"}) : calls[p].entry = j
            /\ globalRollback => \E p \in Pos({"globalRollback"}) : calls[p].entry = j

\* Both compensations of the last entry raised and the first entry was still
\* compensated, by both.
C3_Witness ==
    /\ Failed
    /\ \E p \in Pos({"rollback"}), q \in Pos({"globalRollback"}) :
          /\ calls[p].entry = 2 /\ ~calls[p].ok
          /\ calls[q].entry = 2 /\ ~calls[q].ok
    /\ \E p \in Pos({"rollback"}), q \in Pos({"globalRollback"}) :
          calls[p].entry = 1 /\ calls[q].entry = 1

\* The calls of execute, in order.
ExecCalls == SelectSeq(calls, LAMBDA c : c.fn = "execute")

\* C4: with retry policies of at least one attempt, a run that returns has
\* called the action of every step in list order, the first with the
\* undefined context and each next step with the result the step before it
\* returned (a repeated call of the same step gets the same context again),
\* and returns the last result; and a run fails only if some call raised.
C4_ContextThreaded ==
    /\ (pc = "returned" /\ ValidPolicies) =>
          LET E == ExecCalls
          IN /\ \A j \in 1..Len(tasks) : \E n \in 1..Len(E) : E[n].idx = j /\ E[n].ok
             /\ Len(E) > 0 => E[1].ctx = Undefined /\ E[1].idx = 1
             /\ \A n \in 1..(Len(E) - 1) :
                   IF E[n + 1].idx = E[n].idx
                   THEN E[n + 1].ctx = E[n].ctx
                   ELSE /\ E[n + 1].idx = E[n].idx + 1
                        /\ E[n].ok
                        /\ E[n + 1].ctx = E[n].res
             /\ returned = IF Len(E) = 0 THEN Undefined ELSE E[Len(E)].res
             /\ Len(E) > 0 => E[Len(E)].ok /\ E[Len(E)].idx = Len(tasks)
    /\ RollingBack => \E p \in 1..Len(calls) : ~calls[p].ok

\* A run of three steps returned the third step's result.
C4_Witness ==
    /\ pc = "returned"
    /\ ValidPolicies
    /\ Len(tasks) = 3
    /\ Len(ExecCalls) = 3
    /\ returned = ExecCalls[3].res
    /\ ExecCalls[3].ctx = ExecCalls[2].res

\* The positions of the calls of fn made for step s.
StepPos(fn, s) == {p \in Pos({fn}) : calls[p].idx = s}

Last(S) == CHOOSE p \in S : \A q \in S : q <= p

\* The for..of has left step s: it moved on, or the forward pass has ended.
StepOver(s) == k > s \/ RollingBack \/ pc = "returned"

\* Step s has a retry policy with a non-zero delay.
RetriesWithDelay(s) == tasks[s].retry.set /\ tasks[s].retry.delayMs # 0

\* Step s was attempted and every call of its action raised.
AlwaysFailed(s) ==
    /\ StepPos("execute", s) # {}
    /\ \A x \in StepPos("execute", s) : ~calls[x].ok

\* C5: a step with retry policy attempts = n and a non-zero delay whose
\* action raised at every call has had its action called exactly n times,
\* with exactly one wait between each two consecutive calls and none
\* elsewhere (n - 1 waits); then onError (if set) was called once, with the
\* last attempt's error, and the run is rolling back on that step, with the
\* last attempt's error unless onError raised one of its own.
C5_RetryExhaustion ==
    \A s \in 1..Len(tasks) :
        (RetriesWithDelay(s) /\ AlwaysFailed(s) /\ StepOver(s)) =>
            LET X == StepPos("execute", s)
                W == StepPos("setTimeout", s)
                O == StepPos("onError", s)
            IN /\ Cardinality(X) = tasks[s].retry.attempts
               /\ Cardinality(W) = tasks[s].retry.attempts - 1
               /\ \A x \in X : x # Last(X) =>
                     \E w \in W : /\ x < w
                                  /\ \A y \in X : y > x => w < y
               /\ \A w \in W : w < Last(X)
               /\ Cardinality(O) = IF stepEvents.onError THEN 1 ELSE 0
               /\ \A o \in O : o > Last(X) /\ calls[o].err = Last(X)
               /\ RollingBack
               /\ k = s
               /\ error = IF \E o \in O : ~calls[o].ok THEN Last(O) ELSE Last(X)

\* A step with the largest retry policy failed at every attempt, onError was
\* told, and the run is rolling back.
C5_Witness ==
    \E s \in 1..Len(tasks) :
        /\ RetriesWithDelay(s)
        /\ tasks[s].retry.attempts = MaxAttempts
        /\ AlwaysFailed(s)
        /\ StepOver(s)
        /\ Cardinality(StepPos("execute", s)) = MaxAttempts
        /\ Cardinality(StepPos("setTimeout", s)) = MaxAttempts - 1
        /\ StepPos("onError", s) # {}

C7_RetryWithoutDelay ==
    \A s \in 1..Len(tasks) :
        (/\ tasks[s].retry.set
         /\ ~HasDelay(tasks[s].retry)
         /\ AlwaysFailed(s)
         /\ StepOver(s)) =>
            Cardinality(StepPos("execute", s)) = tasks[s].retry.attempts

\* The rollback loop is past entry j.
EntryDone(j) == Failed \/ (pc = "unwind" /\ i < j)

\* C8: in the rollback, the step-specific compensation of an entry comes
\* before the global one; the global one (if set) is invoked for every entry
\* the loop has passed, whether the step-specific one was absent, returned
\* or raised; and both get the entry's recorded context and the error the
\* rollback was triggered by.
C8_StepThenGlobal ==
    /\ \A p \in Pos(Compensations) :
          /\ calls[p].ctx = contexts[calls[p].entry].ctx
          /\ calls[p].err = error
          /\ ~calls[error].ok
          /\ error < p
    /\ \A p \in Pos({"rollback"}), q \in Pos({"globalRollback"}) :
          calls[p].entry = calls[q].entry => p < q
    /\ \A j \in 1..Len(contexts) :
          (RollingBack /\ EntryDone(j)) =>
             /\ Compensable(j) => \E p \in Pos({"rollback"}) : calls[p].entry = j
             /\ globalRollback =>
                   Cardinality({q \in Pos({"globalRollback"}) : calls[q].entry = j}) = 1

\* The global compensation ran after a step-specific one that raised, and
\* for an entry that has no step-specific one.
C8_Witness ==
    /\ Failed
    /\ \E p \in Pos({"rollback"}), q \in Pos({"globalRollback"}) :
          calls[p].entry = calls[q].entry /\ ~calls[p].ok /\ p < q
    /\ \E j \in 1..Len(contexts) :
          /\ ~Compensable(j)
          /\ \E q \in Pos({"globalRollback"}) : calls[q].entry = j

\* The call of execute that a history append (a "push") follows.
PushedAfter(h) == Last({x \in Pos({"execute"}) : x < h})

\* C9: every history entry is, and stays, the name of its step and the
\* context that step's action was called with when it returned: undefined
\* for the first entry, and for every other entry what the action of the
\* entry before it returned; the compensations of an entry are given that
\* context.
C9_HistoryKeepsInput ==
    /\ Len(contexts) = Cardinality(Pos({"push"}))
    /\ \A h \in Pos({"push"}) :
          LET j == calls[h].entry
              x == PushedAfter(h)
          IN /\ j \in 1..Len(contexts)
             /\ calls[x].ok
             /\ calls[x].idx = calls[h].idx
             /\ contexts[j] = [step |-> tasks[calls[x].idx].name, ctx |-> calls[x].ctx]
             /\ contexts[j].ctx =
                   IF j = 1 THEN Undefined
                   ELSE calls[PushedAfter(Last({g \in Pos({"push"}) : g < h}))].res
             /\ \A p \in Pos(Compensations) :
                   calls[p].entry = j => calls[p].ctx = calls[x].ctx

\* The second entry holds the first step's result, and was rolled back with it.
C9_Witness ==
    /\ Failed
    /\ Len(contexts) = 2
    /\ contexts[1].ctx = Undefined
    /\ contexts[2].ctx # Undefined
    /\ \E p \in Pos({"rollback"}) : calls[p].entry = 2 /\ calls[p].ctx = contexts[2].ctx

\* C10 (the claim as stated): with an onError observer set, every call of an
\* action that raised is reported to onError.
C10_EveryFailureReported ==
    stepEvents.onError =>
        \A x \in Pos({"execute"}) :
            ~calls[x].ok => \E o \in Pos({"onError"}) : o > x /\ calls[o].err = x

Observers == {"onStart", "onSuccess", "onError"}

\* C11 (the claim as stated): an observer that raised ends the forward pass:
\* no action is invoked after it, the run is rolling back, and the error the
\* rollback was triggered by is an observer's (this one's, or that of an
\* observer told of it).
C11_ObserverErrorTerminal ==
    \A o \in Pos(Observers) :
        ~calls[o].ok =>
            /\ \A x \in Pos({"execute"}) : x < o
            /\ RollingBack
            /\ error \in Pos(Observers) /\ error >= o

\* The state of a run, read off where run() is.
Phase(at) ==
    CASE at = "idle" -> "PENDING"
      [] at \in {"loop", "while"} -> "RUNNING"
      [] at \in {"catch", "unwind"} -> "ROLLING_BACK"
      [] at = "returned" -> "COMPLETED"
      [] at = "thrown" -> "FAILED"

\* The moves between states.  (run() on an empty list makes no call while
\* RUNNING: the step from PENDING shows it COMPLETED.)
PhaseMoves ==
    {<<"PENDING", "RUNNING">>, <<"RUNNING", "COMPLETED">>,
     <<"RUNNING", "ROLLING_BACK">>, <<"ROLLING_BACK", "FAILED">>}

\* The calls of the forward pass.
Forward == {"execute", "onStart", "onSuccess", "push", "setTimeout"}

\* The announcement of the rollback (line 141).
RollbackBegun ==
    {p \in Pos({"logger"}) : calls[p].name = "Transaction failed, initiating rollback"}

C12_PhaseInv ==
    /\ pc = "returned" =>
          /\ Pos(Compensations) = {}
          /\ RollbackBegun = {}
          /\ thrown = NoError
    /\ Phase(pc) \in {"PENDING", "RUNNING"} => Pos(Compensations) = {} /\ RollbackBegun = {}
    /\ \A r \in RollbackBegun :
          /\ \A p \in Pos(Forward) : p < r
          /\ \A p \in Pos(Compensations) : p > r
    /\ Failed =>
          /\ i < 1
          /\ Cardinality(RollbackBegun) = 1
          /\ \A j \in 1..Len(contexts) :
                (Compensable(j) \/ globalRollback) =>
                    \E p \in Pos(Compensations) : calls[p].entry = j

C12_PhaseStep ==
    /\ Phase(pc') # Phase(pc) =>
          \/ <<Phase(pc), Phase(pc')>> \in PhaseMoves
          \/ tasks = <<>> /\ Phase(pc) = "PENDING" /\ Phase(pc') = "COMPLETED"
    /\ Phase(pc) \in {"ROLLING_BACK", "FAILED", "COMPLETED"} =>
          /\ contexts' = contexts
          /\ \A p \in (Len(calls) + 1)..Len(calls') : calls'[p].fn \notin Forward

\* C12: a run goes PENDING, RUNNING, COMPLETED or PENDING, RUNNING,
\* ROLLING_BACK, FAILED and makes no other move; a run that returned invoked
\* no compensation; once the rollback has begun no action, onStart or
\* onSuccess is invoked and the history no longer changes; and a run has
\* thrown only after the rollback loop passed every history entry, each
\* entry that has a compensation having had one invoked.
C12_RunPhases == []C12_PhaseInv /\ [][C12_PhaseStep]_vars

\* A run failed after two steps succeeded and their compensations were
\* invoked after the rollback was announced.
C12_Witness ==
    /\ Failed
    /\ Len(contexts) = 2
    /\ \E r \in RollbackBegun, p, q \in Pos(Compensations) :
          r < p /\ p < q /\ calls[p].entry = 2 /\ calls[q].entry = 1
    /\ Pos({"onSuccess"}) # {}

\* The for..of has begun step s (its head, lines 107-108, has run).
Begun(s) == s < k \/ (s = k /\ pc # "loop")

\* The calls made for a step.
StepCalls == Forward \cup {"onError"}

RaisedBefore(p) == {q \in 1..(p - 1) : ~calls[q].ok}

EntryStep(j) == calls[CHOOSE h \in Pos({"push"}) : calls[h].entry = j].idx

\* Step s has the name of a step before it in the list.
Shadowed(s) == \E l \in 1..(s - 1) : tasks[l].name = tasks[s].name

\* C15: the step-specific compensation of a history entry is that of the
\* first step in the list with the entry's name: every call of a rollback is
\* the call of such a first definition, for an entry of its name, with that
\* entry's recorded context; an entry the rollback loop has passed had that
\* definition's rollback (if it declares one) invoked exactly once, also when
\* the entry was appended by a later step of the same name; and the rollback
\* of a step that has the name of an earlier step is never invoked.
C15_FirstMatch ==
    /\ \A p \in Pos({"rollback"}) :
          LET j == calls[p].entry
              d == calls[p].idx
          IN /\ j \in 1..Len(contexts)
             /\ d \in 1..Len(tasks)
             /\ tasks[d].name = contexts[j].step
             /\ tasks[d].name = tasks[EntryStep(j)].name
             /\ ~Shadowed(d)
             /\ d <= EntryStep(j)
             /\ tasks[d].rollback
             /\ calls[p].ctx = contexts[j].ctx
    /\ \A s \in 1..Len(tasks) : Shadowed(s) => StepPos("rollback", s) = {}
    /\ \A j \in 1..Len(contexts) :
          (RollingBack /\ EntryDone(j)) =>
              \A d \in 1..Len(tasks) :
                  (tasks[d].name = contexts[j].step /\ ~Shadowed(d)) =>
                      Cardinality({p \in StepPos("rollback", d) : calls[p].entry = j})
                          = IF tasks[d].rollback THEN 1 ELSE 0

\* Two steps of one name, each declaring a rollback, succeeded and a third
\* step failed: the first one's rollback was invoked for both entries, with
\* the two recorded contexts.
C15_Witness ==
    /\ Failed
    /\ Len(tasks) = 3
    /\ tasks[1].name = tasks[2].name
    /\ tasks[1].rollback /\ tasks[2].rollback
    /\ Len(contexts) = 2
    /\ \E p, q \in StepPos("rollback", 1) :
          /\ calls[p].entry = 2 /\ calls[q].entry = 1
          /\ calls[p].ctx # calls[q].ctx

\* The handlers in effect are those of the last call of onStep, and run()
\* invokes no other: an observer or a global rollback that call left out is
\* not invoked.
C16_LastCallInEffect ==
    /\ stepEvents = [onStart |-> lastEvents.onStart,
                     onSuccess |-> lastEvents.onSuccess,
                     onError |-> lastEvents.onError]
    /\ globalRollback = lastEvents.rollback
    /\ Pos({"onStart"}) # {} => lastEvents.onStart
    /\ Pos({"onSuccess"}) # {} => lastEvents.onSuccess
    /\ Pos({"onError"}) # {} => lastEvents.onError
    /\ Pos({"globalRollback"}) # {} => lastEvents.rollback

\* A call of onStep leaves the step list (and the logger) as they are.
C16_OnStepFrame ==
    (lastEvents' # lastEvents \/ stepEvents' # stepEvents
        \/ globalRollback' # globalRollback \/ cleared' # cleared) =>
            /\ tasks' = tasks
            /\ logger' = logger
            /\ pc = "idle" /\ pc' = "idle"

\* C16: onStep replaces the whole observer set and the global rollback and
\* leaves the step list unchanged: at any time the handlers in effect are
\* exactly those given to the last call of onStep, so a handler an earlier
\* call set and the last call left out is cleared, and run() does not
\* invoke it.
C16_OnStepReplaces == []C16_LastCallInEffect /\ [][C16_OnStepFrame]_vars

\* The last call of onStep left out onStart and the global rollback, one of
\* them set before, and gave onSuccess; the run that followed rolled back
\* an entry without invoking either.
C16_Witness ==
    /\ cleared
    /\ ~lastEvents.onStart /\ ~lastEvents.rollback /\ lastEvents.onSuccess
    /\ Failed
    /\ Len(contexts) >= 1
    /\ Pos({"onSuccess"}) # {}
    /\ Pos({"onStart", "globalRollback"}) = {}

\* run() has been called and has neither returned nor thrown.
Running == pc \in {"loop", "while", "catch", "unwind"}
Settled == pc \in {"returned", "thrown"}

\* No step's action is invoked more often than its retry policy's attempts,
\* or than once when it has no policy.
C17_AttemptsBounded ==
    \A s \in 1..Len(tasks) :
        LET n == Attempts(tasks[s].retry)
        IN /\ Cardinality(StepPos("execute", s)) <= n
           /\ ~tasks[s].retry.set => Cardinality(StepPos("execute", s)) <= 1
           /\ (pc = "while" /\ k = s) =>
                 /\ attempts >= 0
                 /\ Cardinality(StepPos("execute", s)) = n - attempts

\* C17: the action of a step is invoked at most `attempts` times (at most
\* once without a retry policy), and a run that was started returns or throws,
\* every callback and every delay completing.
C17_RunTerminates == []C17_AttemptsBounded /\ (Running ~> Settled)

\* A step used up all of the largest attempt budget and the run has ended.
C17_Witness ==
    /\ Settled
    /\ \E s \in 1..Len(tasks) :
          /\ tasks[s].retry.set
          /\ tasks[s].retry.attempts = MaxAttempts
          /\ Cardinality(StepPos("execute", s)) = MaxAttempts

\* The steps whose action has returned, in the order of the calls.
Succeeded == SelectSeq(calls, LAMBDA c : c.fn = "execute" /\ c.ok)

\* C18 (the claim as stated): when the rollback begins, and from then on,
\* the history holds exactly the steps whose action returned in this run,
\* each once and in the order they ran, whatever the failure came from.
C18_HistoryIsSuccesses ==
    RollingBack =>
        /\ Len(contexts) = Len(Succeeded)
        /\ \A j \in 1..Len(contexts) :
              /\ j <= Len(Succeeded)
              /\ contexts[j] = [step |-> Succeeded[j].name, ctx |-> Succeeded[j].ctx]
              /\ EntryStep(j) = Succeeded[j].idx

\* The calls of step s's action that returned.
Returned(s) == {x \in StepPos("execute", s) : calls[x].ok}

\* C19 (the claim as stated): when run() has returned, every step of the
\* list had its action invoked and returning exactly once, and what run()
\* returned is what the last step's action returned, whatever the retry
\* policies.
C19_ReturnMeansAllRan ==
    pc = "returned" =>
        /\ \A s \in 1..Len(tasks) : Cardinality(Returned(s)) = 1
        /\ Len(tasks) > 0 => returned = calls[Last(Returned(Len(tasks)))].res

\* C20 (the claim as stated): whatever the logging sink does during the
\* rollback (the forward pass having ended with an error that is not the
\* sink's), a run that has thrown had every history entry compensated (its
\* step-specific compensation if declared, the global one if set) and threw
\* the error the rollback was triggered by.
C20_SinkFailureHarmless ==
    (Failed /\ calls[error].fn # "logger") =>
        /\ thrown = error
        /\ \A j \in 1..Len(contexts) :
              /\ Compensable(j) => \E p \in Pos({"rollback"}) : calls[p].entry = j
              /\ globalRollback => \E p \in Pos({"globalRollback"}) : calls[p].entry = j

=============================================================================
